---------------------------- MODULE Spec2Model ----------------------------
(***************************************************************************)
(* A model of the cohort-analysis scripts:                                 *)
(*   tasks/threadCount.py            the thread allocator                  *)
(*   scripts/cohort_update.py        the incremental update orchestrator   *)
(*   scripts/cohort_merge.py         the cohort merge orchestrator         *)
(*   scripts/create_manifest_files.py  new-file selection and manifests    *)
(* File names and paths are sequences of one-character strings, so that    *)
(* lexical order, suffixes, glob patterns and formatted numbers are        *)
(* computed as Python computes them.                                       *)
(***************************************************************************)
EXTENDS Integers, Sequences, FiniteSets, TLC

VARIABLES
    inp,        \* allocator spec: the (cpu count, file count) the calls are made with
    last,       \* the latest run of threadCount.py
    prev,       \* the run of threadCount.py before it
    wrap,       \* the latest call of cohort_update.calculate_thread_counts
    sel,        \* selector spec: the directory, the known samples and the result
    chunk,      \* chunker spec: write_manifest_files' arguments, position and files
    fs,         \* orchestrator specs: the files of the output directory
    now,        \* the clock, in seconds after 2024-03-15 00:00:00 UTC
    wclock,     \* the number of file writes so far: the mtime of the next one
    run,        \* the run of cohort_update.py or cohort_merge.py in progress
    hist,       \* the runs that ended, oldest first
    proc,       \* pipe spec: the engine process, its two pipes and the reader
    graph       \* task graph spec: the arguments and the batch file built from them

vars == <<inp, last, prev, wrap, sel, chunk, fs, now, wclock, run, hist, proc, graph>>

allocVars == <<inp, last, prev, wrap>>

toolVars == <<proc, graph>>

orchVars == <<fs, now, wclock, run, hist, toolVars>>

(***************************************************************************)
(* Bounds of the model.                                                    *)
(***************************************************************************)
MaxCpu == 9
MaxUnits == 4
MaxFiles == 5
MaxCap == 3
MaxRuns == 2
MaxSeconds == 1
MaxMinutes == 1

(***************************************************************************)
(* Optional values: <<>> is Python's None, <<v>> is the value v.           *)
(***************************************************************************)
None == <<>>

Some(v) == <<v>>

(***************************************************************************)
(* Python strings: a string is a sequence of one-character strings, and    *)
(* characters are ordered by code point.  Alphabet lists the characters    *)
(* the model uses in code-point order.                                     *)
(***************************************************************************)
Alphabet == <<"-", ".", "0", "1", "2", "3", "4", "5", "6", "7", "8", "9", "_",
              "a", "b", "c", "d", "e", "f", "g", "h", "i", "j", "k", "l", "m",
              "n", "o", "p", "q", "r", "s", "t", "u", "v", "w", "x", "y", "z">>

Digits == <<"0", "1", "2", "3", "4", "5", "6", "7", "8", "9">>

OrdTable == [c \in {Alphabet[i] : i \in 1 .. Len(Alphabet)} |->
                CHOOSE i \in 1 .. Len(Alphabet) : Alphabet[i] = c]

Ord(c) == OrdTable[c]

\* s < t on Python strings
str_lt(s, t) ==
    \E i \in 1 .. Len(t) :
        /\ i - 1 <= Len(s)
        /\ SubSeq(s, 1, i - 1) = SubSeq(t, 1, i - 1)
        /\ \/ i = Len(s) + 1
           \/ i <= Len(s) /\ Ord(s[i]) < Ord(t[i])

\* s.startswith(p), s.endswith(p)
startswith(s, p) == Len(p) <= Len(s) /\ SubSeq(s, 1, Len(p)) = p

endswith(s, p) == Len(p) <= Len(s) /\ SubSeq(s, Len(s) - Len(p) + 1, Len(s)) = p

\* s.replace(old, ""), for a non-empty old: every occurrence, left to right
RECURSIVE str_remove(_, _)
str_remove(s, old) ==
    IF Len(s) < Len(old) THEN s
    ELSE IF startswith(s, old)
         THEN str_remove(SubSeq(s, Len(old) + 1, Len(s)), old)
         ELSE <<Head(s)>> \o str_remove(Tail(s), old)

\* s.replace(old, new), for a non-empty old
RECURSIVE str_replace(_, _, _)
str_replace(s, old, new) ==
    IF Len(s) < Len(old) THEN s
    ELSE IF startswith(s, old)
         THEN new \o str_replace(SubSeq(s, Len(old) + 1, Len(s)), old, new)
         ELSE <<Head(s)>> \o str_replace(Tail(s), old, new)

\* str(n) for an integer n >= 0
RECURSIVE str_int(_)
str_int(n) ==
    IF n < 10 THEN <<Digits[n + 1]>>
    ELSE str_int(n \div 10) \o <<Digits[(n % 10) + 1]>>

\* a number below 100 as strftime formats %m, %d, %H, %M
pad2(n) == <<Digits[(n \div 10) + 1], Digits[(n % 10) + 1]>>

\* s.rfind("."): the 1-based index of the last ".", or 0
rfind_dot(s) ==
    IF \E i \in 1 .. Len(s) : s[i] = "."
    THEN CHOOSE i \in 1 .. Len(s) : s[i] = "." /\ \A j \in (i + 1) .. Len(s) : s[j] # "."
    ELSE 0

\* sorted(seq, key=...) where Lt(a, b) iff key(a) < key(b).  Python's sort is
\* stable: an element comes after the elements that are not greater than it
\* and that stood before it.  upto[k] is the sorted seq[1..k].
sorted_by(seq, Lt(_, _)) ==
    LET upto[k \in 0 .. Len(seq)] ==
            IF k = 0 THEN <<>>
            ELSE LET done == upto[k - 1]
                     x == seq[k]
                     at == Cardinality({i \in 1 .. Len(done) : ~Lt(x, done[i])})
                 IN  SubSeq(done, 1, at) \o <<x>> \o SubSeq(done, at + 1, Len(done))
    IN  upto[Len(seq)]

\* the sequences that list every element of the set S once
Perms(S) ==
    {q \in [1 .. Cardinality(S) -> S] : \A i, j \in DOMAIN q : q[i] = q[j] => i = j}

(***************************************************************************)
(* The values the variables of one specification keep in the others.       *)
(***************************************************************************)
NoSel == [pc |-> "idle"]

NoChunk == [pc |-> "idle"]

NoProc == [pc |-> "idle"]

NoGraph == [pc |-> "idle"]

NoOrch ==
    /\ fs = {}
    /\ now = 0
    /\ wclock = 0
    /\ run = [pc |-> "idle"]
    /\ hist = <<>>
    /\ proc = NoProc
    /\ graph = NoGraph

(***************************************************************************)
(* tasks/threadCount.py                                                    *)
(***************************************************************************)
max(a, b) == IF a > b THEN a ELSE b

min(a, b) == IF a < b THEN a ELSE b

\* math.floor(a / b) for integers a, b with b # 0
floor_div(a, b) == a \div b

\* math.ceil(a / b) for integers a, b with b # 0
ceil_div(a, b) == -((-a) \div b)

\* a bug: one CPU of headroom instead of two
flatten_threads_mut(cpu_count, file_count) == min(cpu_count - 1, file_count)

\* line 64
flatten_threads(cpu_count, file_count) == min(cpu_count - 2, file_count)

\* a bug: the headroom is taken off the remaining threads a second time
reader_threads_mut(cpu_count, flatten) ==
    max(1, floor_div(cpu_count - 2 - flatten, flatten))

\* lines 66-68, for flatten # 0
reader_threads(cpu_count, flatten) ==
    max(1, floor_div(cpu_count - flatten, flatten))

\* line 70, for flatten # 0
readers_per_flattener(file_count, flatten) == ceil_div(file_count, flatten)

\* Lines 62-74: the values computed from (cpu_count, file_count).  A division
\* by zero raises ZeroDivisionError at the line that divides; the values the
\* code had not assigned yet are 0 in the record and are never printed.
\* merge_threads and total are floats in the code: merge_threads is the
\* fraction merge_num / merge_den and total is total_num / merge_den.
allocate(cpu_count, file_count) ==
    LET flatten == flatten_threads(cpu_count, file_count)
        blank   == [status |-> "ZeroDivisionError", flatten_threads |-> flatten,
                    reader_threads |-> 0, readers_per_flattener |-> 0,
                    merge_num |-> 0, merge_den |-> 0, total_num |-> 0]
    IN  IF flatten = 0
        THEN blank
        ELSE LET rt  == reader_threads(cpu_count, flatten)
                 rpf == readers_per_flattener(file_count, flatten)
             IN  IF rpf = 0
                 THEN [blank EXCEPT !.reader_threads = rt]
                 ELSE [status |-> "ok", flatten_threads |-> flatten,
                       reader_threads |-> rt, readers_per_flattener |-> rpf,
                       merge_num |-> file_count + rpf, merge_den |-> rpf,
                       total_num |-> (file_count + rpf) * rt + (file_count + rpf)]

\* threadCount.py main without the check of --cpu-count (lines 50-53)
threadCount_main_mut(count, cpu_arg, os_cpu, flag) ==
    LET failed(code) == [exit |-> code, stdout |-> <<>>, cpu_count |-> None,
                         alloc |-> None]
    IN  IF count <= 0 THEN failed(1)
        ELSE IF cpu_arg = None /\ os_cpu = None THEN failed(2)
        ELSE LET cpu_count == IF cpu_arg # None THEN cpu_arg[1] ELSE os_cpu[1]
                 a == allocate(cpu_count, count)
             IN  IF a.status # "ok"
                 THEN [exit |-> 1, stdout |-> <<>>, cpu_count |-> Some(cpu_count),
                       alloc |-> Some(a)]
                 ELSE [exit |-> 0,
                       stdout |-> CASE flag = "reader" -> <<a.reader_threads>>
                                    [] flag = "rpf" -> <<a.readers_per_flattener>>
                                    [] OTHER -> <<cpu_count, a.flatten_threads,
                                                  a.readers_per_flattener,
                                                  a.reader_threads,
                                                  a.total_num, a.merge_den>>,
                       cpu_count |-> Some(cpu_count),
                       alloc |-> Some(a)]

\* Lines 44-87.  count is the positional argument, cpu_arg the optional
\* --cpu-count, os_cpu what os.cpu_count() returns, flag which of
\* --reader-threads ("reader"), --readers-per-flattener ("rpf") or neither
\* ("all") was given.  The result is the exit code, what was printed on
\* standard output, the cpu count used and the values computed.
threadCount_main(count, cpu_arg, os_cpu, flag) ==
    LET failed(code) == [exit |-> code, stdout |-> <<>>, cpu_count |-> None,
                         alloc |-> None]
    IN  IF count <= 0 THEN failed(1)
        ELSE IF cpu_arg # None /\ cpu_arg[1] <= 0 THEN failed(1)
        ELSE IF cpu_arg = None /\ os_cpu = None THEN failed(2)
        ELSE LET cpu_count == IF cpu_arg # None THEN cpu_arg[1] ELSE os_cpu[1]
                 a == allocate(cpu_count, count)
             IN  IF a.status # "ok"
                 THEN [exit |-> 1, stdout |-> <<>>, cpu_count |-> Some(cpu_count),
                       alloc |-> Some(a)]
                 ELSE [exit |-> 0,
                       stdout |-> CASE flag = "reader" -> <<a.reader_threads>>
                                    [] flag = "rpf" -> <<a.readers_per_flattener>>
                                    [] OTHER -> <<cpu_count, a.flatten_threads,
                                                  a.readers_per_flattener,
                                                  a.reader_threads,
                                                  a.total_num, a.merge_den>>,
                       cpu_count |-> Some(cpu_count),
                       alloc |-> Some(a)]

(***************************************************************************)
(* scripts/cohort_update.py: calculate_thread_counts                       *)
(***************************************************************************)
\* subprocess.check_output of threadCount.py with --cpu-count given: the
\* parsed integer, or CalledProcessError on a non-zero exit.
check_output_int(count, cpu_count, flag) ==
    LET r == threadCount_main(count, Some(cpu_count), None, flag)
    IN  IF r.exit # 0
        THEN [status |-> "CalledProcessError", value |-> 0, run |-> r]
        ELSE [status |-> "ok", value |-> r.stdout[1], run |-> r]

\* Lines 46-75.  script_exists is thread_count_script.exists().  runs are the
\* runs of threadCount.py the call made, in order.
calculate_thread_counts(cpu_count, file_count, script_exists) ==
    IF ~script_exists
    THEN IF cpu_count - 2 = 0
         THEN [status |-> "ZeroDivisionError", reader_threads |-> 0,
               readers_per_flattener |-> 0, runs |-> <<>>]
         ELSE [status |-> "ok",
               reader_threads |-> max(1, cpu_count \div 4),
               readers_per_flattener |-> max(1, file_count \div (cpu_count - 2)),
               runs |-> <<>>]
    ELSE LET rt == check_output_int(file_count, cpu_count, "reader")
         IN  IF rt.status # "ok"
             THEN [status |-> rt.status, reader_threads |-> 0,
                   readers_per_flattener |-> 0, runs |-> <<rt.run>>]
             ELSE LET rpf == check_output_int(file_count, cpu_count, "rpf")
                  IN  IF rpf.status # "ok"
                      THEN [status |-> rpf.status, reader_threads |-> 0,
                            readers_per_flattener |-> 0, runs |-> <<rt.run, rpf.run>>]
                      ELSE [status |-> "ok", reader_threads |-> rt.value,
                            readers_per_flattener |-> rpf.value,
                            runs |-> <<rt.run, rpf.run>>]

(***************************************************************************)
(* The allocator specification: the inputs are drawn once, and the script  *)
(* and its wrapper are then run on them in every way they can be.          *)
(***************************************************************************)
CountArgs == -1 .. MaxUnits

CpuCounts == -1 .. MaxCpu

Flags == {"reader", "rpf", "all"}

NoCall == [flag |-> "none", cpu_arg |-> None, os_cpu |-> None,
           res |-> [exit |-> 0, stdout |-> <<>>, cpu_count |-> None, alloc |-> None]]

NoWrap == [called |-> FALSE, script_exists |-> FALSE,
           res |-> [status |-> "none", reader_threads |-> 0,
                    readers_per_flattener |-> 0, runs |-> <<>>]]

InitAlloc ==
    /\ inp \in [count : CountArgs, cpu : CpuCounts]
    /\ last = NoCall
    /\ prev = NoCall
    /\ wrap = NoWrap
    /\ sel = NoSel
    /\ chunk = NoChunk
    /\ NoOrch

\* `python3 threadCount.py --cpu-count <cpu> [flag] <count>`
RunThreadCountArg ==
    \E flag \in Flags :
        /\ last' = [flag |-> flag, cpu_arg |-> Some(inp.cpu), os_cpu |-> None,
                    res |-> threadCount_main(inp.count, Some(inp.cpu), None, flag)]
        /\ prev' = last
        /\ UNCHANGED <<inp, wrap, sel, chunk, orchVars>>

\* `python3 threadCount.py [flag] <count>`: os.cpu_count() is the number of
\* CPUs, a positive integer, or None when it cannot be determined.
RunThreadCountAuto ==
    \E flag \in Flags :
        LET os_cpu == IF inp.cpu >= 1 THEN Some(inp.cpu) ELSE None
        IN  /\ last' = [flag |-> flag, cpu_arg |-> None, os_cpu |-> os_cpu,
                        res |-> threadCount_main(inp.count, None, os_cpu, flag)]
            /\ prev' = last
            /\ UNCHANGED <<inp, wrap, sel, chunk, orchVars>>

\* calculate_thread_counts(cpu, count, task_dir) of cohort_update.py; count is
\* count_files_in_manifest(), which is never negative.
CallCalculateThreadCounts ==
    /\ inp.count >= 0
    /\ \E script_exists \in BOOLEAN :
        wrap' = [called |-> TRUE, script_exists |-> script_exists,
                 res |-> calculate_thread_counts(inp.cpu, inp.count, script_exists)]
    /\ UNCHANGED <<inp, last, prev, sel, chunk, orchVars>>

NextAlloc ==
    \/ RunThreadCountArg
    \/ RunThreadCountAuto
    \/ CallCalculateThreadCounts

SpecAlloc == InitAlloc /\ [][NextAlloc]_vars

Called(c) == c.flag # "none"

Computed(c) == Called(c) /\ c.res.alloc # None

(***************************************************************************)
(* C1: for every cpuCount >= 3 and unitCount >= 1 the allocator computes   *)
(* 1 <= flattenerCount <= min(cpuCount - 2, unitCount), readerThreads >= 1 *)
(* and readersPerFlattener >= 1, and two calls with the same               *)
(* (cpuCount, unitCount) compute the same three values, whichever flag was *)
(* given and wherever the cpu count came from.                             *)
(***************************************************************************)
C1_Ranges(c) ==
    (Called(c) /\ inp.count >= 1 /\ inp.cpu >= 3)
        => /\ c.res.exit = 0
           /\ c.res.alloc # None
           /\ LET a == c.res.alloc[1]
                  cpu == c.res.cpu_count[1]
              IN  /\ a.status = "ok"
                  /\ 1 <= a.flatten_threads
                  /\ a.flatten_threads <= cpu - 2
                  /\ a.flatten_threads <= inp.count
                  /\ cpu = inp.cpu
                  /\ a.reader_threads >= 1
                  /\ a.readers_per_flattener >= 1

C1_AllocatorRanges ==
    /\ C1_Ranges(last)
    /\ (Computed(last) /\ Computed(prev) /\ inp.count >= 1 /\ inp.cpu >= 3)
           => last.res.alloc = prev.res.alloc

C1_Witness ==
    /\ Computed(last) /\ Computed(prev)
    /\ inp.count >= 2 /\ inp.cpu >= 5
    /\ last.flag # prev.flag
    /\ last.cpu_arg # prev.cpu_arg
    /\ last.res.alloc[1].flatten_threads >= 2
    /\ last.res.alloc[1].reader_threads >= 2

(***************************************************************************)
(* C2 as stated: allocate(cpuCount = 8, unitCount = 1) computes            *)
(* flattenerCount = 1, readerThreads = 6 and readersPerFlattener = 1.      *)
(***************************************************************************)
C2_Original ==
    (Computed(last) /\ inp.cpu = 8 /\ inp.count = 1)
        => LET a == last.res.alloc[1]
           IN  /\ a.flatten_threads = 1
               /\ a.reader_threads = 6
               /\ a.readers_per_flattener = 1

(***************************************************************************)
(* C2 amended: allocate(cpuCount = 8, unitCount = 1) exits 0 with          *)
(* flattenerCount = 1, readerThreads = 7 (= floor((8 - 1) / 1)) and        *)
(* readersPerFlattener = 1; --reader-threads prints 7 and                  *)
(* --readers-per-flattener prints 1.                                       *)
(***************************************************************************)
C2_Amended ==
    (Called(last) /\ inp.cpu = 8 /\ inp.count = 1)
        => /\ last.res.exit = 0
           /\ last.res.alloc # None
           /\ LET a == last.res.alloc[1]
              IN  /\ a.flatten_threads = 1
                  /\ a.reader_threads = 7
                  /\ a.readers_per_flattener = 1
           /\ (last.flag = "reader" => last.res.stdout = <<7>>)
           /\ (last.flag = "rpf" => last.res.stdout = <<1>>)

C2_Witness ==
    /\ Computed(last) /\ inp.cpu = 8 /\ inp.count = 1
    /\ last.flag = "reader"
    /\ last.res.stdout = <<7>>

(***************************************************************************)
(* C3 as stated: for every cpuCount >= 1 and unitCount >= 1 the            *)
(* flattenerCount is at least 1 and neither the script nor the wrapper's   *)
(* fallback divides by zero.                                               *)
(***************************************************************************)
C3_FlooredAtOne ==
    (inp.cpu >= 1 /\ inp.count >= 1)
        => /\ Called(last)
                => /\ last.res.alloc # None
                   /\ last.res.alloc[1].status = "ok"
                   /\ last.res.alloc[1].flatten_threads >= 1
           /\ wrap.called => wrap.res.status # "ZeroDivisionError"

(***************************************************************************)
(* scripts/create_manifest_files.py: find_files_with_new_samples           *)
(***************************************************************************)
\* pathlib's PurePath.suffix and PurePath.stem of a file name: the suffix
\* starts at the last "." unless that is the first or the last character.
path_suffix(name) ==
    LET i == rfind_dot(name)
    IN  IF 1 < i /\ i < Len(name) THEN SubSeq(name, i, Len(name)) ELSE <<>>

path_stem(name) ==
    LET i == rfind_dot(name)
    IN  IF 1 < i /\ i < Len(name) THEN SubSeq(name, 1, i - 1) ELSE name

\* s.split('.')[-1]
last_dot_part(s) == SubSeq(s, rfind_dot(s) + 1, Len(s))

\* line 47, negated: the file is looked at only when this holds
is_vcf_gz(name) ==
    /\ path_suffix(name) = <<".", "g", "z">>
    /\ last_dot_part(path_stem(name)) = <<"v", "c", "f">>

\* a bug: all() for any()
sample_exists_mut(sample_names, existing_samples) ==
    \A sample \in sample_names : sample \in existing_samples

\* line 56
sample_exists(sample_names, existing_samples) ==
    \E sample \in sample_names : sample \in existing_samples

\* a bug: the failure of one file ends the loop
RECURSIVE find_loop_mut(_, _, _)
find_loop_mut(paths, dir, existing_samples) ==
    IF paths = <<>> THEN <<>>
    ELSE LET file_path == Head(paths)
             e    == dir[file_path]
             rest == find_loop_mut(Tail(paths), dir, existing_samples)
         IN  IF ~e.is_file THEN rest
             ELSE IF ~is_vcf_gz(file_path) THEN rest
             ELSE IF ~e.ok THEN <<>>
             ELSE IF e.samples = {} THEN rest
             ELSE IF sample_exists(e.samples, existing_samples) THEN rest
             ELSE <<file_path>> \o rest

\* a bug: the samples of an accepted file are added to the known samples, so
\* that a later file that shares one of them is skipped
RECURSIVE find_loop_known_mut(_, _, _)
find_loop_known_mut(paths, dir, existing_samples) ==
    IF paths = <<>> THEN <<>>
    ELSE LET file_path == Head(paths)
             e    == dir[file_path]
             rest == find_loop_known_mut(Tail(paths), dir, existing_samples)
         IN  IF ~e.is_file THEN rest
             ELSE IF ~is_vcf_gz(file_path) THEN rest
             ELSE IF ~e.ok THEN rest
             ELSE IF e.samples = {} THEN rest
             ELSE IF sample_exists(e.samples, existing_samples) THEN rest
             ELSE <<file_path>>
                      \o find_loop_known_mut(Tail(paths), dir,
                                             existing_samples \cup e.samples)

\* Lines 43-65, the loop over the sorted entries.  dir[p].is_file is
\* p.is_file(); dir[p].ok says whether bcftools succeeds on p
\* (get_sample_names_from_file raises CalledProcessError otherwise, which the
\* except clause turns into a warning) and dir[p].samples are the names it lists.
RECURSIVE find_loop(_, _, _)
find_loop(paths, dir, existing_samples) ==
    IF paths = <<>> THEN <<>>
    ELSE LET file_path == Head(paths)
             e    == dir[file_path]
             rest == find_loop(Tail(paths), dir, existing_samples)
         IN  IF ~e.is_file THEN rest
             ELSE IF ~is_vcf_gz(file_path) THEN rest
             ELSE IF ~e.ok THEN rest
             ELSE IF e.samples = {} THEN rest
             ELSE IF sample_exists(e.samples, existing_samples) THEN rest
             ELSE <<file_path>> \o rest

\* Lines 35-67: the caller's set existing_samples after the call.  The set
\* is passed by reference and the function only tests membership in it
\* (line 56); nothing is added to it or removed from it.
existing_samples_after(is_dir, dir, iterdir, existing_samples) == existing_samples

\* Lines 35-67.  iterdir is the order in which dir_path.iterdir() yields the
\* entries; sorted() orders the paths of one directory by name.
find_files_with_new_samples(is_dir, dir, iterdir, existing_samples) ==
    IF ~is_dir
    THEN [status |-> "ValueError", files |-> <<>>]
    ELSE [status |-> "ok",
          files |-> find_loop(sorted_by(iterdir, str_lt), dir, existing_samples)]

(***************************************************************************)
(* The selector specification: a directory and a set of known samples are  *)
(* drawn, and find_files_with_new_samples is called on them.               *)
(***************************************************************************)
Samples == {"S1", "S2", "S3"}

VcfNames == {<<"a", ".", "v", "c", "f", ".", "g", "z">>,
             <<"b", ".", "v", "c", "f", ".", "g", "z">>,
             <<"v", "c", "f", ".", "g", "z">>}

OtherNames == {<<"a", ".", "t", "x", "t", ".", "g", "z">>}

Names == VcfNames \cup OtherNames

Absent == [present |-> FALSE, is_file |-> FALSE, ok |-> FALSE, samples |-> {}]

Subdir == [present |-> TRUE, is_file |-> FALSE, ok |-> FALSE, samples |-> {}]

Unreadable == [present |-> TRUE, is_file |-> TRUE, ok |-> FALSE, samples |-> {}]

Readable(S) == [present |-> TRUE, is_file |-> TRUE, ok |-> TRUE, samples |-> S]

\* what a name can be in the directory; the samples of a file that is not
\* named like a compressed variant file are never asked for
EntriesOf(name) ==
    {Absent, Subdir, Unreadable}
        \cup CASE name \in OtherNames -> {Readable({"S2"})}
               [] name = <<"v", "c", "f", ".", "g", "z">> ->
                      {Readable({"S1"}), Readable({"S2"})}
               [] OTHER -> {Readable(S) : S \in SUBSET Samples}

Dirs == {d \in [Names -> UNION {EntriesOf(n) : n \in Names}] :
            \A n \in Names : d[n] \in EntriesOf(n)}

Present(dir) == {n \in Names : dir[n].present}

\* the orders in which iterdir() can yield the entries of a directory
Listings == [S \in SUBSET Names |-> Perms(S)]

NoRes == [status |-> "none", files |-> <<>>]

InitSelect ==
    /\ sel \in [pc : {"start"}, is_dir : {TRUE}, dir : Dirs,
                known : SUBSET Samples, res : {NoRes}]
           \cup [pc : {"start"}, is_dir : {FALSE}, dir : {[n \in Names |-> Absent]},
                 known : SUBSET Samples, res : {NoRes}]
    /\ inp = [count |-> 0, cpu |-> 0]
    /\ last = NoCall
    /\ prev = NoCall
    /\ wrap = NoWrap
    /\ chunk = NoChunk
    /\ NoOrch

FindFilesWithNewSamples ==
    /\ sel.pc = "start"
    /\ \E iterdir \in Listings[Present(sel.dir)] :
           sel' = [sel EXCEPT !.pc = "done",
                       !.res = find_files_with_new_samples(sel.is_dir, sel.dir,
                                                           iterdir, sel.known),
                       !.known = existing_samples_after(sel.is_dir, sel.dir,
                                                        iterdir, sel.known)]
    /\ UNCHANGED <<allocVars, chunk, orchVars>>

NextSelect == FindFilesWithNewSamples

SpecSelect == InitSelect /\ [][NextSelect]_vars

Range(q) == {q[i] : i \in DOMAIN q}

\* the candidates of the claims: regular files named like a compressed
\* variant file
Candidate(dir, n) == dir[n].present /\ dir[n].is_file /\ is_vcf_gz(n)

(***************************************************************************)
(* C5: a candidate whose extraction succeeds is accepted if and only if    *)
(* its sample set is non-empty and disjoint from the known samples (one    *)
(* known sample rejects the whole file); nothing else is accepted, and the *)
(* accepted list is a subsequence of the lexically sorted listing.         *)
(***************************************************************************)
C5_AcceptedIffAllNew ==
    (sel.pc = "done" /\ sel.is_dir)
        => LET files == sel.res.files
           IN  /\ \A n \in Names :
                     (Candidate(sel.dir, n) /\ sel.dir[n].ok)
                        => (n \in Range(files)
                               <=> /\ sel.dir[n].samples # {}
                                   /\ sel.dir[n].samples \cap sel.known = {})
               /\ \A n \in Range(files) : Candidate(sel.dir, n) /\ sel.dir[n].ok
               /\ \A i, j \in DOMAIN files : i < j => str_lt(files[i], files[j])

C5_Witness ==
    /\ sel.pc = "done" /\ sel.is_dir
    /\ sel.known = {"S1"}
    /\ Len(sel.res.files) = 2
    /\ \E n \in VcfNames : Candidate(sel.dir, n) /\ sel.dir[n].samples = {"S1", "S3"}
                             /\ n \notin Range(sel.res.files)
    /\ \E n \in Range(sel.res.files) : sel.dir[n].samples = {"S2", "S3"}

(***************************************************************************)
(* C6: a candidate whose extraction fails is skipped and nothing else      *)
(* changes: the call returns normally, and returns what it returns on the  *)
(* same directory without the failing files.                               *)
(***************************************************************************)
Failing(dir, n) == Candidate(dir, n) /\ ~dir[n].ok

WithoutFailing(dir) == [n \in Names |-> IF Failing(dir, n) THEN Absent ELSE dir[n]]

C6_FailureIsolated ==
    (sel.pc = "done" /\ sel.is_dir)
        => /\ sel.res.status = "ok"
           /\ \A iterdir \in Listings[Present(WithoutFailing(sel.dir))] :
                  sel.res = find_files_with_new_samples(TRUE, WithoutFailing(sel.dir),
                                                        iterdir, sel.known)
           /\ \A n \in Names : Failing(sel.dir, n) => n \notin Range(sel.res.files)

C6_Witness ==
    /\ sel.pc = "done" /\ sel.is_dir
    /\ \E n \in Names, m \in Range(sel.res.files) : Failing(sel.dir, n) /\ str_lt(n, m)

(***************************************************************************)
(* scripts/create_manifest_files.py: write_manifest_files                  *)
(***************************************************************************)
\* a bug: the last, partial manifest is dropped
num_manifests_mut(n, files_per_manifest) == n \div files_per_manifest

\* line 79, for files_per_manifest # 0
num_manifests(n, files_per_manifest) ==
    (n + files_per_manifest - 1) \div files_per_manifest

\* files[start:end_idx] for a start >= 0 (0-based, as in Python: a negative
\* end counts from the end of the list)
py_slice(files, start, end_idx) ==
    LET stop == IF end_idx < 0 THEN max(Len(files) + end_idx, 0)
                ELSE min(end_idx, Len(files))
    IN  SubSeq(files, start + 1, stop)

\* a bug: the slice is written as it is
manifest_lines_mut(files, i, files_per_manifest) ==
    LET start_idx == i * files_per_manifest
        end_idx == min(start_idx + files_per_manifest, Len(files))
    IN  py_slice(files, start_idx, end_idx)

\* lines 81-86: the paths of manifest i (0-based), sorted
manifest_lines(files, i, files_per_manifest) ==
    LET start_idx == i * files_per_manifest
        end_idx == min(start_idx + files_per_manifest, Len(files))
    IN  sorted_by(py_slice(files, start_idx, end_idx), str_lt)

\* f"{n:03d}" for n >= 0
format_03d(n) ==
    LET d == str_int(n)
    IN  IF Len(d) >= 3 THEN d ELSE [k \in 1 .. (3 - Len(d)) |-> "0"] \o d

\* lines 89-90
manifest_filename(output_prefix, i) ==
    output_prefix \o <<"_">> \o format_03d(i + 1)
        \o <<".", "m", "a", "n", "i", "f", "e", "s", "t", ".", "t", "x", "t">>

(***************************************************************************)
(* The chunker specification: write_manifest_files is called on a list of  *)
(* distinct paths, and runs one loop iteration at a time.  chunk.index is  *)
(* manifest_list.csv (its header and its rows), chunk.written the manifest *)
(* files in the order they were created.                                   *)
(***************************************************************************)
PathList == << <<"b">>, <<"a">>, <<"a", "b">>, <<"c">>, <<"a", "-">>, <<"d">> >>

PathPool == {PathList[k] : k \in 1 .. min(MaxFiles, Len(PathList))}

FileLists ==
    {q \in UNION {[1 .. k -> PathPool] : k \in 0 .. MaxFiles} :
        \A i, j \in DOMAIN q : q[i] = q[j] => i = j}

Caps == -1 .. MaxCap

OutputPrefix == <<"m">>

NoIndex == [open |-> FALSE, header |-> FALSE, rows |-> <<>>]

InitChunk ==
    /\ chunk \in [pc : {"start"}, files : FileLists, files_per_manifest : Caps,
                  i : {0}, num_manifests : {0}, index : {NoIndex}, written : {<<>>}]
    /\ inp = [count |-> 0, cpu |-> 0]
    /\ last = NoCall
    /\ prev = NoCall
    /\ wrap = NoWrap
    /\ sel = NoSel
    /\ NoOrch

\* Lines 71-79: nothing is done for an empty list; otherwise the index is
\* opened, its header written and the number of manifests computed.
WriteManifestsBegin ==
    /\ chunk.pc = "start"
    /\ chunk' =
         IF chunk.files = <<>>
         THEN [chunk EXCEPT !.pc = "returned"]
         ELSE IF chunk.files_per_manifest = 0
         THEN [chunk EXCEPT !.pc = "ZeroDivisionError",
                            !.index = [open |-> TRUE, header |-> TRUE, rows |-> <<>>]]
         ELSE [chunk EXCEPT !.pc = "loop",
                            !.index = [open |-> TRUE, header |-> TRUE, rows |-> <<>>],
                            !.num_manifests = num_manifests(Len(chunk.files),
                                                            chunk.files_per_manifest)]
    /\ UNCHANGED <<allocVars, sel, orchVars>>

\* Lines 80-97: one iteration of the loop writes one manifest and its row.
WriteManifestsIteration ==
    /\ chunk.pc = "loop"
    /\ chunk.i < chunk.num_manifests
    /\ LET manifest_files == manifest_lines(chunk.files, chunk.i, chunk.files_per_manifest)
           name == manifest_filename(OutputPrefix, chunk.i)
       IN  chunk' = [chunk EXCEPT
                       !.written = Append(@, [name |-> name, lines |-> manifest_files]),
                       !.index.rows = Append(@, name),
                       !.i = @ + 1]
    /\ UNCHANGED <<allocVars, sel, orchVars>>

\* Line 99: the loop is over and the index is closed.
WriteManifestsEnd ==
    /\ chunk.pc = "loop"
    /\ chunk.i >= chunk.num_manifests
    /\ chunk' = [chunk EXCEPT !.pc = "done"]
    /\ UNCHANGED <<allocVars, sel, orchVars>>

NextChunk ==
    \/ WriteManifestsBegin
    \/ WriteManifestsIteration
    \/ WriteManifestsEnd

SpecChunk == InitChunk /\ [][NextChunk]_vars

IsSorted(q) == \A i, j \in DOMAIN q : i < j => ~str_lt(q[j], q[i])

\* the number of places of the manifests written that hold path f
Occurrences(f) ==
    Cardinality({kj \in (1 .. Len(chunk.written)) \X (1 .. MaxFiles + 1) :
                    /\ kj[2] <= Len(chunk.written[kj[1]].lines)
                    /\ chunk.written[kj[1]].lines[kj[2]] = f})

(***************************************************************************)
(* C7: for n >= 1 paths and a capacity c > 0, write_manifest_files writes  *)
(* ceil(n / c) manifests; manifest k holds exactly the paths of the k-th   *)
(* contiguous slice of c paths of the input (the slice itself, in the      *)
(* original order, when the input is in lexical order, as the selector's   *)
(* output is), so each holds at most c paths and all but the last hold c;  *)
(* every input path is in exactly one manifest and no other path is in any.*)
(***************************************************************************)
C7_ContiguousChunks ==
    (chunk.pc = "done" /\ chunk.files_per_manifest > 0)
        => LET n == Len(chunk.files)
               c == chunk.files_per_manifest
               m == Len(chunk.written)
               slice(k) == SubSeq(chunk.files, (k - 1) * c + 1, min(k * c, n))
           IN  /\ (m - 1) * c < n /\ n <= m * c
               /\ \A k \in 1 .. m :
                     LET lines == chunk.written[k].lines
                     IN  /\ Len(lines) = Len(slice(k))
                         /\ Range(lines) = Range(slice(k))
                         /\ Len(lines) <= c
                         /\ Len(lines) >= 1
                         /\ (k < m => Len(lines) = c)
                         /\ (IsSorted(chunk.files) => lines = slice(k))
               /\ \A f \in Range(chunk.files) : Occurrences(f) = 1
               /\ \A k \in 1 .. m : Range(chunk.written[k].lines) \subseteq Range(chunk.files)

C7_Witness ==
    /\ chunk.pc = "done"
    /\ chunk.files_per_manifest = 2
    /\ Len(chunk.files) = 5
    /\ ~IsSorted(SubSeq(chunk.files, 3, 4))
    /\ Len(chunk.written) = 3
    /\ Len(chunk.written[1].lines) = 2
    /\ Len(chunk.written[2].lines) = 2
    /\ Len(chunk.written[3].lines) = 1

(***************************************************************************)
(* C8: at every point of write_manifest_files each manifest written lists  *)
(* its paths in lexical order, and the index holds one row per manifest    *)
(* written, in creation order: row k names the manifest numbered k, and    *)
(* there is no other row.                                                  *)
(***************************************************************************)
C8_SortedAndIndexed ==
    /\ \A k \in 1 .. Len(chunk.written) :
          /\ IsSorted(chunk.written[k].lines)
          /\ chunk.written[k].name = manifest_filename(OutputPrefix, k - 1)
    /\ Len(chunk.index.rows) = Len(chunk.written)
    /\ \A k \in 1 .. Len(chunk.written) : chunk.index.rows[k] = chunk.written[k].name
    /\ \A j, k \in 1 .. Len(chunk.written) :
          j < k => str_lt(chunk.written[j].name, chunk.written[k].name)
    /\ chunk.written # <<>> => chunk.index.header

C8_Witness ==
    /\ chunk.pc = "done"
    /\ Len(chunk.written) = 3
    /\ ~IsSorted(chunk.files)
    /\ \E k \in 1 .. 2 :
          chunk.written[k].lines # SubSeq(chunk.files, 2 * k - 1, 2 * k)
    /\ chunk.index.rows = << <<"m", "_", "0", "0", "1", ".", "m", "a", "n", "i", "f",
                               "e", "s", "t", ".", "t", "x", "t">>,
                             <<"m", "_", "0", "0", "2", ".", "m", "a", "n", "i", "f",
                               "e", "s", "t", ".", "t", "x", "t">>,
                             <<"m", "_", "0", "0", "3", ".", "m", "a", "n", "i", "f",
                               "e", "s", "t", ".", "t", "x", "t">> >>

(***************************************************************************)
(* The file system and the clock of the orchestrator scripts.  A directory *)
(* is a set of files [name, mtime]; all paths of a run are in one          *)
(* directory, so that os.path.join(workspace_dir, name) is name.  Time t   *)
(* is in seconds after 2024-03-15 00:00:00 UTC.                            *)
(***************************************************************************)
TSF == <<".", "t", "s", "f">>

FileNames(files) == {f.name : f \in files}

getmtime(files, name) == (CHOOSE f \in files : f.name = name).mtime

exists(files, name) == name \in FileNames(files)

getsize(files, name) == (CHOOSE f \in files : f.name = name).size

\* the file `name` is created or rewritten at write time `stamp` with `size`
\* bytes of content
write_sized(files, name, stamp, size) ==
    {f \in files : f.name # name}
        \cup {[name |-> name, mtime |-> stamp, size |-> size]}

\* a track is written: it is not empty
write_file(files, name, stamp) == write_sized(files, name, stamp, 1)

\* os.remove(name)
remove_file(files, name) == {f \in files : f.name # name}

\* the names of S in lexical order
RECURSIVE names_sorted(_)
names_sorted(S) ==
    IF S = {} THEN <<>>
    ELSE LET x == CHOOSE y \in S : \A z \in S \ {y} : str_lt(y, z)
         IN  <<x>> \o names_sorted(S \ {x})

\* Orders in which the directory can be enumerated by glob.glob (os.scandir
\* order is arbitrary): any entry first, then the others.
ScanOrders(S) ==
    IF S = {} THEN {<<>>}
    ELSE {<<first>> \o names_sorted(S \ {first}) : first \in S}

\* glob.glob(prefix + "*" + suffix) on a directory enumerated as scandir
glob(scandir, prefix, suffix) ==
    LET matches(name) == /\ Len(name) >= Len(prefix) + Len(suffix)
                         /\ startswith(name, prefix)
                         /\ endswith(name, suffix)
    IN  SelectSeq(scandir, matches)

\* datetime.utcnow().strftime("%Y-%m-%d")
strftime_date(t) == <<"2", "0", "2", "4", "-", "0", "3", "-">> \o pad2(15 + (t \div 86400))

\* datetime.utcnow().strftime("%Y-%m-%d-%H-%M")
strftime_minute(t) ==
    strftime_date(t) \o <<"-">> \o pad2((t % 86400) \div 3600)
                     \o <<"-">> \o pad2((t % 3600) \div 60)

\* int(datetime.now().timestamp())
timestamp(t) == 1710460800 + t

(***************************************************************************)
(* scripts/cohort_update.py, lines 178-207: the version resolver           *)
(***************************************************************************)
\* line 201: sorted(glob.glob(pattern), key=os.path.getmtime, reverse=True);
\* a reverse sort keeps the original order of files of equal mtime
update_latest(files, candidates) ==
    LET newer(a, b) == getmtime(files, a) > getmtime(files, b)
    IN  sorted_by(candidates, newer)

\* lines 181, 196-203
update_existing_counts(args_out_file, args_existing_counts, files, scandir) ==
    IF args_existing_counts # None THEN args_existing_counts
    ELSE LET out_file_base == str_remove(args_out_file, TSF)
             found == update_latest(files, glob(scandir, out_file_base \o <<"_">>, TSF))
         IN  IF found # <<>> THEN Some(found[1]) ELSE None

\* lines 178, 181, 206-207
update_out_file(args_out_file, t) ==
    str_remove(args_out_file, TSF) \o <<"_">> \o strftime_date(t)
        \o <<"_">> \o str_int(timestamp(t)) \o TSF

(***************************************************************************)
(* scripts/cohort_merge.py, lines 74-113: the version resolver             *)
(***************************************************************************)
\* lines 74, 86-98: args_out_file is --out-file (None when absent),
\* config_out_file is config['out_file']
merge_out_file(args_out_file, config_out_file, t) ==
    LET given == IF args_out_file # None THEN args_out_file[1] ELSE config_out_file
        base  == IF endswith(given, TSF) THEN SubSeq(given, 1, Len(given) - 4) ELSE given
        named == IF args_out_file = None
                 THEN base \o <<"_">> \o strftime_minute(t)
                 ELSE base
    IN  IF endswith(named, TSF) THEN named ELSE named \o TSF

\* lines 102-113: the pattern is built from out_file, which already ends
\* in ".tsf"
merge_existing_counts(out_file, args_existing_counts, scandir) ==
    IF args_existing_counts # None THEN args_existing_counts
    ELSE LET found == sorted_by(glob(scandir, out_file \o <<"_">>, TSF), str_lt)
         IN  IF found # <<>> THEN Some(found[Len(found)]) ELSE None

(***************************************************************************)
(* scripts/cohort_utils.py: calculate_thread_counts (used by cohort_merge) *)
(***************************************************************************)
\* lines 48-71: the values are fixed
utils_calculate_thread_counts(cpu_count, file_count) ==
    [status |-> "ok", reader_threads |-> 5, readers_per_flattener |-> 1, runs |-> <<>>]

(***************************************************************************)
(* One run of cohort_update.py or cohort_merge.py, a step at a time.       *)
(*   args_out_file, args_existing_counts, skip_existing_counts: the        *)
(*     command line (config['out_file'] of cohort_merge is "out");         *)
(*   cpu: AGENT_CPU_CORES; file_count: the paths in the manifest;          *)
(*   tbi_ok: every .tbi index exists; schema_ok: `gautil schema` succeeds; *)
(*   script_exists: threadCount.py is in TASK_DIR;                         *)
(*   log: what FilterFilesWithSamplesTask of the engine does with its      *)
(*     logFile: "none" (not written), "empty" or "nonempty".               *)
(***************************************************************************)
OUT == <<"o", "u", "t">>

NoThreads == [status |-> "none", reader_threads |-> 0, readers_per_flattener |-> 0,
              runs |-> <<>>]

NewRun(script, args) ==
    [pc |-> "args", script |-> script,
     args_out_file |-> args.out_file,
     args_existing_counts |-> args.existing_counts,
     skip_existing_counts |-> args.skip,
     cpu |-> args.cpu, file_count |-> args.file_count,
     tbi_ok |-> args.tbi_ok, schema_ok |-> args.schema_ok,
     script_exists |-> args.script_exists, log |-> args.log,
     existing_counts |-> None, out_file |-> <<>>, existing_counts_path |-> <<>>,
     threads |-> NoThreads, batch_written |-> FALSE, launches |-> 0,
     engine_rc |-> None, precomputes |-> 0, cleanups |-> 0, success |-> FALSE,
     exit_code |-> 0, error |-> "none"]

\* the run as the history keeps it
Ended(r) ==
    [script |-> r.script, out_file |-> r.out_file,
     existing_counts |-> r.existing_counts,
     override |-> r.args_existing_counts # None
                    \/ r.skip_existing_counts
                    \/ (r.script = "merge" /\ r.args_out_file # None),
     pc |-> r.pc]

Abort(r, code, error) == [r EXCEPT !.pc = "aborted", !.exit_code = code, !.error = error]

\* A run starts when no run is in progress.
StartRun(script, args) ==
    /\ run.pc \in {"idle", "done", "aborted"}
    /\ Len(hist) + (IF run.pc = "idle" THEN 0 ELSE 1) < MaxRuns
    /\ hist' = IF run.pc = "idle" THEN hist ELSE Append(hist, Ended(run))
    /\ run' = NewRun(script, args)
    /\ UNCHANGED <<allocVars, sel, chunk, toolVars, fs, now, wclock>>

\* cohort_update.py lines 176-207
U_Resolve ==
    /\ run.pc = "args" /\ run.script = "update"
    /\ \E scandir \in ScanOrders(FileNames(fs)) :
          run' = [run EXCEPT
                    !.pc = "resolved",
                    !.existing_counts =
                        update_existing_counts(run.args_out_file[1],
                                               run.args_existing_counts, fs, scandir),
                    !.out_file = update_out_file(run.args_out_file[1], now)]
    /\ UNCHANGED <<allocVars, sel, chunk, toolVars, fs, now, wclock, hist>>

\* cohort_update.py lines 209-251: check_tbi_files exits 1 when an index is
\* missing; the prior version is used when it is a .tsf path that exists,
\* and `gautil schema` (check=True) raises when it fails.
U_Prepare ==
    /\ run.pc = "resolved" /\ run.script = "update"
    /\ run' =
         IF ~run.tbi_ok THEN Abort(run, 1, "missing TBI")
         ELSE IF /\ run.existing_counts # None
                 /\ endswith(run.existing_counts[1], TSF)
                 /\ ~run.skip_existing_counts
                 /\ exists(fs, run.existing_counts[1])
              THEN IF ~run.schema_ok THEN Abort(run, 1, "CalledProcessError")
                   ELSE [run EXCEPT !.pc = "prepared",
                                    !.existing_counts_path = run.existing_counts[1]]
              ELSE [run EXCEPT !.pc = "prepared"]
    /\ UNCHANGED <<allocVars, sel, chunk, toolVars, fs, now, wclock, hist>>

\* cohort_update.py lines 253-262: an exception of calculate_thread_counts
\* ends the run with a traceback and exit code 1
U_CalcThreads ==
    /\ run.pc = "prepared" /\ run.script = "update"
    /\ LET t == calculate_thread_counts(run.cpu, run.file_count, run.script_exists)
       IN  run' = IF t.status # "ok"
                  THEN [Abort(run, 1, t.status) EXCEPT !.threads = t]
                  ELSE [run EXCEPT !.pc = "threads", !.threads = t]
    /\ UNCHANGED <<allocVars, sel, chunk, toolVars, fs, now, wclock, hist>>

\* cohort_update.py lines 264-333: the task graph is written
U_WriteBatch ==
    /\ run.pc = "threads" /\ run.script = "update"
    /\ run' = [run EXCEPT !.pc = "batch", !.batch_written = TRUE]
    /\ UNCHANGED <<allocVars, sel, chunk, toolVars, fs, now, wclock, hist>>

\* the exit codes of gautil the model tries
EngineCodes == 0 .. 2

\* the engine's exit code is not looked at
engine_returned_mut(r, rc) ==
    [r EXCEPT !.pc = "engine_ok", !.launches = @ + 1, !.engine_rc = Some(rc)]

\* cohort_update.py lines 359-363, cohort_utils.py lines 144-149:
\* return_code = process.wait(); sys.exit(return_code) when it is not 0
engine_returned(r, rc) ==
    IF rc # 0
    THEN [Abort(r, rc, "gautil failed") EXCEPT !.launches = @ + 1,
                                               !.engine_rc = Some(rc)]
    ELSE [r EXCEPT !.pc = "engine_ok", !.launches = @ + 1, !.engine_rc = Some(rc)]

\* cohort_update.py line 182
skipped_files_path(args_out_file) ==
    str_remove(args_out_file, TSF)
        \o <<"_", "s", "k", "i", "p", "p", "e", "d", "_",
             "d", "u", "p", "l", "i", "c", "a", "t", "e", "s", ".", "t", "x", "t">>

\* cohort_update.py lines 236-239: the task graph has the stage
\* FilterFilesWithSamplesTask, with logFile, when a prior version is used
engine_log(files, r, stamp) ==
    IF r.existing_counts_path # <<>> /\ r.log # "none"
    THEN write_sized(files, skipped_files_path(r.args_out_file[1]), stamp,
                     IF r.log = "empty" THEN 0 ELSE 1)
    ELSE files

\* the log is removed whatever its size
cleanup_mut(files, path) ==
    IF exists(files, path) THEN remove_file(files, path) ELSE files

\* cohort_update.py lines 370-372
cleanup(files, path) ==
    IF exists(files, path) /\ getsize(files, path) = 0
    THEN remove_file(files, path)
    ELSE files

\* cohort_update.py lines 335-363: gautil runs and exits with code rc.  It
\* writes the output track when it succeeds, and may have written it when
\* it fails.
U_RunEngine ==
    /\ run.pc = "batch" /\ run.script = "update"
    /\ \E rc \in EngineCodes, wrote \in BOOLEAN :
          /\ rc = 0 => wrote
          /\ fs' = engine_log(IF wrote THEN write_file(fs, run.out_file, wclock)
                                        ELSE fs,
                              run, wclock)
          /\ wclock' = IF wrote THEN wclock + 1 ELSE wclock
          /\ run' = engine_returned(run, rc)
    /\ UNCHANGED <<allocVars, sel, chunk, toolVars, now, hist>>

\* cohort_update.py lines 365-367: `gautil precompute` rewrites the track;
\* check=True raises when it fails
U_Precompute ==
    /\ run.pc = "engine_ok" /\ run.script = "update"
    /\ \E ok \in BOOLEAN :
          /\ fs' = IF ok THEN write_file(fs, run.out_file, wclock) ELSE fs
          /\ wclock' = IF ok THEN wclock + 1 ELSE wclock
          /\ run' = IF ok THEN [run EXCEPT !.pc = "precomputed", !.precomputes = @ + 1]
                    ELSE [Abort(run, 1, "CalledProcessError")
                             EXCEPT !.precomputes = @ + 1]
    /\ UNCHANGED <<allocVars, sel, chunk, toolVars, now, hist>>

\* cohort_update.py lines 369-374
U_Cleanup ==
    /\ run.pc = "precomputed" /\ run.script = "update"
    /\ run' = [run EXCEPT !.pc = "done", !.cleanups = @ + 1, !.success = TRUE]
    /\ fs' = cleanup(fs, skipped_files_path(run.args_out_file[1]))
    /\ UNCHANGED <<allocVars, sel, chunk, toolVars, now, wclock, hist>>

\* cohort_merge.py lines 44-69: the manifest parameter file is read and the
\* run exits 1 when it lists nothing
M_ReadManifest ==
    /\ run.pc = "args" /\ run.script = "merge"
    /\ run' = IF run.file_count = 0 THEN Abort(run, 1, "no new processed files")
              ELSE [run EXCEPT !.pc = "manifest"]
    /\ UNCHANGED <<allocVars, sel, chunk, toolVars, fs, now, wclock, hist>>

\* cohort_merge.py lines 72-122
M_Resolve ==
    /\ run.pc = "manifest" /\ run.script = "merge"
    /\ LET out_file == merge_out_file(run.args_out_file, OUT, now)
       IN  \E scandir \in ScanOrders(FileNames(fs)) :
              run' = [run EXCEPT
                        !.pc = "resolved",
                        !.out_file = out_file,
                        !.existing_counts =
                            merge_existing_counts(out_file, run.args_existing_counts,
                                                  scandir),
                        !.existing_counts_path =
                            LET e == merge_existing_counts(out_file,
                                         run.args_existing_counts, scandir)
                            IN  IF e # None THEN e[1] ELSE <<>>]
    /\ UNCHANGED <<allocVars, sel, chunk, toolVars, fs, now, wclock, hist>>

\* cohort_merge.py lines 124-216: the thread counts, the task graph and the
\* manifest of the merge are written
M_WriteBatch ==
    /\ run.pc = "resolved" /\ run.script = "merge"
    /\ run' = [run EXCEPT !.pc = "batch", !.batch_written = TRUE,
                          !.threads = utils_calculate_thread_counts(run.cpu,
                                                                    run.file_count)]
    /\ UNCHANGED <<allocVars, sel, chunk, toolVars, fs, now, wclock, hist>>

\* cohort_merge.py lines 218-230: run_process_with_filtered_output
M_RunEngine ==
    /\ run.pc = "batch" /\ run.script = "merge"
    /\ \E rc \in EngineCodes, wrote \in BOOLEAN :
          /\ rc = 0 => wrote
          /\ fs' = IF wrote THEN write_file(fs, run.out_file, wclock) ELSE fs
          /\ wclock' = IF wrote THEN wclock + 1 ELSE wclock
          /\ run' = engine_returned(run, rc)
    /\ UNCHANGED <<allocVars, sel, chunk, toolVars, now, hist>>

\* cohort_merge.py lines 232-236
M_Precompute ==
    /\ run.pc = "engine_ok" /\ run.script = "merge"
    /\ \E ok \in BOOLEAN :
          /\ fs' = IF ok THEN write_file(fs, run.out_file, wclock) ELSE fs
          /\ wclock' = IF ok THEN wclock + 1 ELSE wclock
          /\ run' = IF ok
                    THEN [run EXCEPT !.pc = "done", !.precomputes = @ + 1,
                                     !.success = TRUE]
                    ELSE [Abort(run, 1, "CalledProcessError")
                             EXCEPT !.precomputes = @ + 1]
    /\ UNCHANGED <<allocVars, sel, chunk, toolVars, now, hist>>

\* Time passes: a second, or the rest of the minute.
TickSecond ==
    /\ now % 60 < MaxSeconds
    /\ now' = now + 1
    /\ UNCHANGED <<allocVars, sel, chunk, toolVars, fs, wclock, run, hist>>

TickMinute ==
    /\ now \div 60 < MaxMinutes
    /\ now' = (now \div 60 + 1) * 60
    /\ UNCHANGED <<allocVars, sel, chunk, toolVars, fs, wclock, run, hist>>

UpdateSteps ==
    \/ U_Resolve
    \/ U_Prepare
    \/ U_CalcThreads
    \/ U_WriteBatch
    \/ U_RunEngine
    \/ U_Precompute
    \/ U_Cleanup

MergeSteps ==
    \/ M_ReadManifest
    \/ M_Resolve
    \/ M_WriteBatch
    \/ M_RunEngine
    \/ M_Precompute

IdleOthers ==
    /\ inp = [count |-> 0, cpu |-> 0]
    /\ last = NoCall
    /\ prev = NoCall
    /\ wrap = NoWrap
    /\ sel = NoSel
    /\ chunk = NoChunk

IdleTools ==
    /\ proc = NoProc
    /\ graph = NoGraph

IdleRuns ==
    /\ fs = {}
    /\ now = 0
    /\ wclock = 0
    /\ run = [pc |-> "idle"]
    /\ hist = <<>>

(***************************************************************************)
(* The update specification: one run of cohort_update.py on every CPU      *)
(* budget, manifest size and outcome of the tools it calls.                *)
(***************************************************************************)
OUT_TSF == OUT \o TSF

OLD_A == <<"o", "u", "t", "_", "2", "0", "2", "4", "-", "0", "1", "-", "0", "1">> \o TSF

OLD_B == <<"o", "u", "t", "_", "2", "0", "2", "4", "-", "0", "3", "-", "1", "5">> \o TSF

UpdateArgs ==
    [out_file : {Some(OUT_TSF)}, existing_counts : {None, Some(OLD_B)},
     skip : BOOLEAN, cpu : -1 .. 4, file_count : 0 .. 2,
     tbi_ok : BOOLEAN, schema_ok : BOOLEAN, script_exists : BOOLEAN, log : {"none"}]

InitUpdate ==
    /\ IdleOthers
    /\ IdleTools
    /\ fs \in {{}, {[name |-> OLD_A, mtime |-> -1, size |-> 1]}}
    /\ now = 0
    /\ wclock = 0
    /\ run = [pc |-> "idle"]
    /\ hist = <<>>

StartUpdate == \E args \in UpdateArgs : StartRun("update", args)

NextUpdate ==
    \/ StartUpdate
    \/ UpdateSteps

SpecUpdate == InitUpdate /\ [][NextUpdate]_vars

(***************************************************************************)
(* The version specification: runs of cohort_update.py and cohort_merge.py *)
(* one after the other, on valid inputs, over a directory that holds older *)
(* versions, while time passes.                                            *)
(***************************************************************************)
\* a file whose name extends the name cohort_merge gives its output in the
\* first minute
OLD_C == OUT \o <<"_">> \o strftime_minute(0) \o TSF \o <<"_", "1">> \o TSF

OldFiles ==
    {S \in SUBSET ({OLD_A, OLD_B, OLD_C} \X {-2, -1}) :
        \A x, y \in S : x[1] = y[1] => x = y}

VersionArgs(script) ==
    [out_file : IF script = "update" THEN {Some(OUT), Some(OUT_TSF)}
                ELSE {None, Some(OUT_TSF)},
     existing_counts : {None, Some(OLD_A)},
     skip : {FALSE}, cpu : {4}, file_count : {2},
     tbi_ok : {TRUE}, schema_ok : {TRUE}, script_exists : {TRUE}, log : {"none"}]

InitVersion ==
    /\ IdleOthers
    /\ IdleTools
    /\ \E S \in OldFiles : fs = {[name |-> x[1], mtime |-> x[2], size |-> 1] : x \in S}
    /\ now = 0
    /\ wclock = 0
    /\ run = [pc |-> "idle"]
    /\ hist = <<>>

StartVersion ==
    \E script \in {"update", "merge"} :
        \E args \in VersionArgs(script) : StartRun(script, args)

NextVersion ==
    \/ StartVersion
    \/ UpdateSteps
    \/ MergeSteps
    \/ TickSecond
    \/ TickMinute

SpecVersion == InitVersion /\ [][NextVersion]_vars

(***************************************************************************)
(* The claims about invalid allocator arguments and about versions         *)
(***************************************************************************)
SeqRange(seq) == {seq[i] : i \in 1 .. Len(seq)}

\* the wrapper of the current run has run threadCount.py
AllocatorRan == run.pc # "idle" /\ run.threads.runs # <<>>

InvalidArgs == run.cpu <= 0 \/ run.file_count <= 0

\* C4: when threadCount.py is run with a CPU count or a file count that is
\* not positive, every such run of the script exits non-zero and prints no
\* value, and the run of cohort_update.py that called it through
\* calculate_thread_counts is aborted with no task graph written and no
\* engine launched.
C4_InvalidInputAborts ==
    (AllocatorRan /\ InvalidArgs) =>
        /\ \A r \in SeqRange(run.threads.runs) :
              r.exit # 0 /\ r.stdout = <<>> /\ r.alloc = None
        /\ run.threads.status = "CalledProcessError"
        /\ run.pc = "aborted"
        /\ run.exit_code # 0
        /\ ~run.batch_written
        /\ run.launches = 0

C4_Witness ==
    /\ AllocatorRan
    /\ run.cpu <= 0
    /\ run.file_count > 0
    /\ run.pc = "aborted"
    /\ run.threads.status = "CalledProcessError"

\* the artifacts <base>_<token>.tsf in the directory
Artifacts(files, base) ==
    {n \in FileNames(files) :
        /\ Len(n) >= Len(base) + 1 + Len(TSF)
        /\ startswith(n, base \o <<"_">>)
        /\ endswith(n, TSF)}

lexically_greatest(S) == CHOOSE n \in S : \A m \in S : m = n \/ str_lt(m, n)

\* the run resolves the prior version itself
Resolving ==
    /\ run.pc = "resolved"
    /\ run.args_existing_counts = None
    /\ ~run.skip_existing_counts

\* C9: a run that is given no prior version and finds artifacts named
\* out_<token>.tsf resolves the one with the lexically greatest name,
\* whatever the order of enumeration and the modification times.
C9_LexicallyGreatest ==
    (Resolving /\ Artifacts(fs, OUT) # {}) =>
        run.existing_counts = Some(lexically_greatest(Artifacts(fs, OUT)))

\* C10: the output name derived for a run is not the name of an existing
\* file and is not the output name of an earlier run that completed.
C10_FreshOutputName ==
    run.pc = "resolved" =>
        /\ run.out_file \notin FileNames(fs)
        /\ \A i \in 1 .. Len(hist) :
              hist[i].pc = "done" => hist[i].out_file # run.out_file

\* C11: in every task graph that is written, readerWorkerThreads and
\* readersPerFlattener are the values the allocator of threadCount.py gives
\* for the CPU budget and the number of files of the manifest.
C11_ThreadsFromAllocator ==
    (run.pc # "idle" /\ run.batch_written) =>
        LET a == allocate(run.cpu, run.file_count)
        IN  /\ a.status = "ok"
            /\ run.threads.reader_threads = a.reader_threads
            /\ run.threads.readers_per_flattener = a.readers_per_flattener

\* the engine of the current run has returned
EngineReturned == run.pc # "idle" /\ run.engine_rc # None

\* C12: when the engine exits with a code that is not 0 the run is aborted
\* with that code, with no precompute, no cleanup of the log, no second
\* launch of the engine and no success reported; precompute runs only after
\* the engine exited with 0.
C12_EngineFailureAborts ==
    /\ (EngineReturned /\ run.engine_rc # Some(0)) =>
          /\ run.pc = "aborted"
          /\ Some(run.exit_code) = run.engine_rc
          /\ run.precomputes = 0
          /\ run.cleanups = 0
          /\ run.launches = 1
          /\ ~run.success
    /\ (run.pc # "idle" /\ run.precomputes > 0) => run.engine_rc = Some(0)
    /\ run.pc # "idle" => run.launches <= 1

C12_Witness ==
    /\ EngineReturned
    /\ run.engine_rc = Some(2)
    /\ run.pc = "aborted"
    /\ run.script = "update"

(***************************************************************************)
(* The engine process and its pipes.                                       *)
(*   cohort_update.py lines 344-363: stdout is read to its end, then       *)
(*     stderr, then process.wait();                                        *)
(*   cohort_utils.py lines 108-149 (run_process_with_filtered_output):     *)
(*     select() on the open streams, one readline() on each readable one.  *)
(* A pipe holds at most PipeCap characters; a write to a full pipe blocks  *)
(* the child, a read of an empty pipe whose write end is open blocks the   *)
(* reader.  "x" is a character that is not a newline, "n" is a newline.    *)
(***************************************************************************)
PipeCap == 2
MaxWrites == 4

Streams == {"stdout", "stderr"}

Chars == {"x", "n"}

has_newline(buf) == \E i \in 1 .. Len(buf) : buf[i] = "n"

\* the text after the first line of buf
after_first_line(buf) ==
    LET i == CHOOSE k \in 1 .. Len(buf) :
                 buf[k] = "n" /\ \A j \in 1 .. k - 1 : buf[j] # "n"
    IN  SubSeq(buf, i + 1, Len(buf))

\* the text after the last complete line of buf
RECURSIVE after_all_lines(_)
after_all_lines(buf) ==
    IF has_newline(buf) THEN after_all_lines(after_first_line(buf)) ELSE buf

NewProc(mode) ==
    [pc |-> IF mode = "update" THEN "stdout" ELSE "select",
     mode |-> mode,
     pipe |-> [st \in Streams |-> <<>>],
     open |-> [st \in Streams |-> TRUE],
     buf |-> [st \in Streams |-> <<>>],
     pending |-> None, writes |-> 0, exited |-> FALSE, rc |-> 0,
     streams |-> Streams, readable |-> <<>>]

\* the child starts a write of one character; it completes when the pipe
\* has room
ChildStartWrite ==
    /\ proc.pc # "idle" /\ ~proc.exited /\ proc.pending = None
    /\ proc.writes < MaxWrites
    /\ \E st \in Streams, c \in Chars :
          /\ proc.open[st]
          /\ proc' = [proc EXCEPT !.pending = Some(<<st, c>>), !.writes = @ + 1]
    /\ UNCHANGED <<allocVars, sel, chunk, fs, now, wclock, run, hist, graph>>

ChildFinishWrite ==
    /\ proc.pc # "idle" /\ proc.pending # None
    /\ LET st == proc.pending[1][1]
           c == proc.pending[1][2]
       IN  /\ Len(proc.pipe[st]) < PipeCap
           /\ proc' = [proc EXCEPT !.pipe[st] = Append(@, c), !.pending = None]
    /\ UNCHANGED <<allocVars, sel, chunk, fs, now, wclock, run, hist, graph>>

ChildClose ==
    /\ proc.pc # "idle" /\ ~proc.exited /\ proc.pending = None
    /\ \E st \in Streams :
          /\ proc.open[st]
          /\ proc' = [proc EXCEPT !.open[st] = FALSE]
    /\ UNCHANGED <<allocVars, sel, chunk, fs, now, wclock, run, hist, graph>>

ChildExit ==
    /\ proc.pc # "idle" /\ ~proc.exited /\ proc.pending = None
    /\ \E rc \in {0, 1} :
          proc' = [proc EXCEPT !.open = [st \in Streams |-> FALSE],
                               !.exited = TRUE, !.rc = rc]
    /\ UNCHANGED <<allocVars, sel, chunk, fs, now, wclock, run, hist, graph>>

\* io.TextIOWrapper: one read of the pipe takes everything that is in it
at_eof(p, st) == p.pipe[st] = <<>> /\ ~p.open[st]

\* `for line in stream` of cohort_update.py: the lines read are printed,
\* the end of the stream ends the loop
stream_lines(p, st, next_pc) ==
    IF p.pipe[st] # <<>>
    THEN [p EXCEPT !.buf[st] = after_all_lines(@ \o p.pipe[st]), !.pipe[st] = <<>>]
    ELSE [p EXCEPT !.buf[st] = <<>>, !.pc = next_pc]

\* cohort_update.py lines 352-353
U_StreamStdout ==
    /\ proc.pc = "stdout"
    /\ proc.pipe["stdout"] # <<>> \/ at_eof(proc, "stdout")
    /\ proc' = stream_lines(proc, "stdout", "stderr")
    /\ UNCHANGED <<allocVars, sel, chunk, fs, now, wclock, run, hist, graph>>

\* cohort_update.py lines 355-357
U_StreamStderr ==
    /\ proc.pc = "stderr"
    /\ proc.pipe["stderr"] # <<>> \/ at_eof(proc, "stderr")
    /\ proc' = stream_lines(proc, "stderr", "wait")
    /\ UNCHANGED <<allocVars, sel, chunk, fs, now, wclock, run, hist, graph>>

\* cohort_utils.py lines 118-120: while process.poll() is None or
\* any(streams); select() returns the streams that have data or are at
\* their end, after at most 0.1 s
order(S) ==
    (IF "stdout" \in S THEN <<"stdout">> ELSE <<>>)
        \o (IF "stderr" \in S THEN <<"stderr">> ELSE <<>>)

RP_Select ==
    /\ proc.pc = "select"
    /\ proc' =
         IF proc.exited /\ proc.streams = {}
         THEN [proc EXCEPT !.pc = "wait"]
         ELSE LET ready == {st \in proc.streams :
                               proc.pipe[st] # <<>> \/ at_eof(proc, st)}
              IN  IF ready = {} THEN proc
                  ELSE [proc EXCEPT !.pc = "readline", !.readable = order(ready)]
    /\ UNCHANGED <<allocVars, sel, chunk, fs, now, wclock, run, hist, graph>>

\* the stream the reader is in readline() on
reading(p) == p.readable[1]

\* the for loop of line 122 goes to the next readable stream
next_stream(p) ==
    [p EXCEPT !.readable = Tail(@),
              !.pc = IF Len(p.readable) > 1 THEN "readline" ELSE "select"]

\* cohort_utils.py lines 122-139: line = stream.readline().  A line that is
\* buffered is returned; otherwise the pipe is read, and the end of the
\* stream returns what is left, or '' and the stream is dropped.
RP_Readline ==
    /\ proc.pc = "readline"
    /\ LET st == reading(proc)
       IN  /\ \/ has_newline(proc.buf[st])
              \/ proc.pipe[st] # <<>>
              \/ at_eof(proc, st)
           /\ proc' =
                IF has_newline(proc.buf[st])
                THEN next_stream([proc EXCEPT !.buf[st] = after_first_line(@)])
                ELSE IF proc.pipe[st] # <<>>
                THEN [proc EXCEPT !.buf[st] = @ \o proc.pipe[st], !.pipe[st] = <<>>]
                ELSE IF proc.buf[st] # <<>>
                THEN next_stream([proc EXCEPT !.buf[st] = <<>>])
                ELSE next_stream([proc EXCEPT !.streams = @ \ {st}])
    /\ UNCHANGED <<allocVars, sel, chunk, fs, now, wclock, run, hist, graph>>

\* cohort_update.py line 359, cohort_utils.py line 144: process.wait(), and
\* the exit code is looked at
ProcessWait ==
    /\ proc.pc = "wait"
    /\ proc.exited
    /\ proc' = [proc EXCEPT !.pc = "exit_code_check"]
    /\ UNCHANGED <<allocVars, sel, chunk, fs, now, wclock, run, hist, graph>>

InitPipes ==
    /\ IdleOthers
    /\ IdleRuns
    /\ graph = NoGraph
    /\ \E mode \in {"update", "utils"} : proc = NewProc(mode)

NextPipes ==
    \/ ChildStartWrite
    \/ ChildFinishWrite
    \/ ChildClose
    \/ ChildExit
    \/ U_StreamStdout
    \/ U_StreamStderr
    \/ RP_Select
    \/ RP_Readline
    \/ ProcessWait

SpecPipes == InitPipes /\ [][NextPipes]_vars

\* the child cannot complete its write
ChildBlocked ==
    /\ proc.pending # None
    /\ Len(proc.pipe[proc.pending[1][1]]) = PipeCap

\* the reader is in a read of an empty pipe whose write end is open
ReaderBlocked ==
    \/ proc.pc \in {"stdout", "stderr"}
         /\ proc.pipe[proc.pc] = <<>> /\ proc.open[proc.pc]
    \/ proc.pc = "readline"
         /\ ~has_newline(proc.buf[reading(proc)])
         /\ proc.pipe[reading(proc)] = <<>> /\ proc.open[reading(proc)]

\* C13: the reader of the engine's output never stalls the engine: the
\* child is never blocked in a write to one pipe while the reader is
\* blocked in a read of the other.
C13_NeverStalled == proc.pc # "idle" => ~(ChildBlocked /\ ReaderBlocked)

(***************************************************************************)
(* scripts/vcf_merge.py: one run, a step at a time                         *)
(***************************************************************************)
MANIFEST == <<"m", ".", "m", "a", "n", "i", "f", "e", "s", "t", ".", "t", "x", "t">>

\* line 65: out_file = manifest_file.replace('.manifest.txt', '.tsf')
vcf_out_file(manifest_file) ==
    str_replace(manifest_file,
                <<".", "m", "a", "n", "i", "f", "e", "s", "t", ".", "t", "x", "t">>, TSF)

\* vcf_merge.py lines 62-110: the output of an earlier run is removed, then
\* check_tbi_files exits 1 when an index is missing
V_Prepare ==
    /\ run.pc = "args" /\ run.script = "vcf"
    /\ LET out_file == vcf_out_file(MANIFEST)
       IN  /\ fs' = IF exists(fs, out_file) THEN remove_file(fs, out_file) ELSE fs
           /\ run' = IF ~run.tbi_ok
                     THEN [Abort(run, 1, "missing TBI") EXCEPT !.out_file = out_file]
                     ELSE [run EXCEPT !.pc = "prepared", !.out_file = out_file]
    /\ UNCHANGED <<allocVars, sel, chunk, toolVars, now, wclock, hist>>

\* vcf_merge.py lines 131-142
V_CountFiles ==
    /\ run.pc = "prepared" /\ run.script = "vcf"
    /\ run' = IF run.file_count = 0 THEN Abort(run, 1, "no VCF files")
              ELSE [run EXCEPT !.pc = "counted"]
    /\ UNCHANGED <<allocVars, sel, chunk, toolVars, fs, now, wclock, hist>>

\* vcf_merge.py lines 144-190: calculate_thread_counts(agent_cpu_cores, 1)
\* and the task graph
V_WriteBatch ==
    /\ run.pc = "counted" /\ run.script = "vcf"
    /\ run' = [run EXCEPT !.pc = "batch", !.batch_written = TRUE,
                          !.threads = utils_calculate_thread_counts(run.cpu, 1)]
    /\ UNCHANGED <<allocVars, sel, chunk, toolVars, fs, now, wclock, hist>>

\* vcf_merge.py lines 192-210: run_process_with_filtered_output, and no
\* precompute
V_RunEngine ==
    /\ run.pc = "batch" /\ run.script = "vcf"
    /\ \E rc \in EngineCodes, wrote \in BOOLEAN :
          /\ rc = 0 => wrote
          /\ fs' = IF wrote THEN write_file(fs, run.out_file, wclock) ELSE fs
          /\ wclock' = IF wrote THEN wclock + 1 ELSE wclock
          /\ run' = IF rc = 0
                    THEN [engine_returned(run, rc) EXCEPT !.pc = "done",
                                                          !.success = TRUE]
                    ELSE engine_returned(run, rc)
    /\ UNCHANGED <<allocVars, sel, chunk, toolVars, now, hist>>

VcfSteps ==
    \/ V_Prepare
    \/ V_CountFiles
    \/ V_WriteBatch
    \/ V_RunEngine

(***************************************************************************)
(* The input specification: runs of the three orchestrators on manifests   *)
(* that are empty or not, with threadCount.py present or not, over a       *)
(* directory that may hold the outputs of earlier runs.                    *)
(***************************************************************************)
InputArgs ==
    [out_file : {Some(OUT)}, existing_counts : {None},
     skip : {FALSE}, cpu : {4}, file_count : 0 .. 1,
     tbi_ok : BOOLEAN, schema_ok : {TRUE}, script_exists : BOOLEAN, log : {"none"}]

InitInput ==
    /\ IdleOthers
    /\ IdleTools
    /\ \E S \in SUBSET {OLD_A, vcf_out_file(MANIFEST)} :
          fs = {[name |-> n, mtime |-> -1, size |-> 1] : n \in S}
    /\ now = 0
    /\ wclock = 0
    /\ run = [pc |-> "idle"]
    /\ hist = <<>>

StartInput ==
    \E script \in {"update", "merge", "vcf"} :
        \E args \in InputArgs : StartRun(script, args)

NextInput ==
    \/ StartInput
    \/ UpdateSteps
    \/ MergeSteps
    \/ VcfSteps

SpecInput == InitInput /\ [][NextInput]_vars

\* a step of a run whose manifest holds no input file
EmptyManifestStep ==
    /\ run.pc # "idle"
    /\ run'.pc \notin {"idle", "args"}
    /\ run'.file_count = 0

\* C14: a run whose manifest holds no input file launches no engine, writes
\* no task graph, leaves every file of the directory as it was and does not
\* end in success.
C14_EmptyManifestAborts ==
    [][EmptyManifestStep =>
          /\ fs' = fs
          /\ ~run'.batch_written
          /\ run'.launches = 0
          /\ run'.pc # "done"]_vars

\* what the caller of write_manifest_files sees: the function has no
\* return statement with a value, so it returns None on every path that
\* does not raise (lines 71-73 and line 99)
write_manifest_files_outcome(c) ==
    CASE c.pc \in {"returned", "done"} -> "returns None"
      [] c.pc = "ZeroDivisionError" -> "raises ZeroDivisionError"
      [] OTHER -> "running"

\* C15: write_manifest_files called with an empty list ends in an error
\* that its caller can tell from a successful call, and writes no manifest
\* and no index.
C15_EmptyIsError ==
    (chunk.pc \notin {"idle", "start"} /\ chunk.files = <<>>) =>
        /\ write_manifest_files_outcome(chunk) \notin {"running", "returns None"}
        /\ chunk.written = <<>>
        /\ chunk.index = NoIndex

(***************************************************************************)
(* The finalizing specification: runs of cohort_update.py on valid inputs, *)
(* with or without a prior version, over a directory that may hold a       *)
(* skipped-duplicates log of an earlier run.                               *)
(***************************************************************************)
FinalArgs ==
    [out_file : {Some(OUT_TSF)}, existing_counts : {None, Some(OLD_A), Some(OLD_B)},
     skip : BOOLEAN, cpu : {4}, file_count : {2},
     tbi_ok : {TRUE}, schema_ok : BOOLEAN, script_exists : {TRUE},
     log : {"none", "empty", "nonempty"}]

SKIPPED == skipped_files_path(OUT_TSF)

InitFinal ==
    /\ IdleOthers
    /\ IdleTools
    /\ \E old \in SUBSET {OLD_A}, log \in {"none", "empty", "nonempty"} :
          fs = {[name |-> n, mtime |-> -2, size |-> 1] : n \in old}
                 \cup (IF log = "none" THEN {}
                       ELSE {[name |-> SKIPPED, mtime |-> -1,
                              size |-> IF log = "empty" THEN 0 ELSE 1]})
    /\ now = 0
    /\ wclock = 0
    /\ run = [pc |-> "idle"]
    /\ hist = <<>>

StartFinal == \E args \in FinalArgs : StartRun("update", args)

NextFinal ==
    \/ StartFinal
    \/ UpdateSteps

SpecFinal == InitFinal /\ [][NextFinal]_vars

\* a prior version was given to the current run, by --existing-counts or by
\* resolution, and is not skipped
PriorGiven ==
    /\ run.pc \notin {"idle", "args"}
    /\ run.existing_counts # None
    /\ ~run.skip_existing_counts

\* C16: when a prior version is given and its path does not exist, the run
\* fails: no task graph is written and the engine is not launched.
C16_MissingPriorIsFatal ==
    (PriorGiven /\ ~exists(fs, run.existing_counts[1])) =>
        /\ ~run.batch_written
        /\ run.launches = 0
        /\ run.pc # "done"

\* the step of lines 369-374 of cohort_update.py
CleanupStep == run.pc = "precomputed" /\ run'.pc = "done"

EmptyLog(files) == exists(files, SKIPPED) /\ getsize(files, SKIPPED) = 0

\* C19: the cleanup comes after an engine run that exited with 0 and a
\* precompute; it removes the skipped-duplicates log when the log exists
\* with size zero, and otherwise leaves every file as it is; it removes or
\* changes no other file, and no other step removes a file.
C19_LogRemovedIffEmpty ==
    [][/\ CleanupStep =>
            /\ run.engine_rc = Some(0)
            /\ run.precomputes = 1
            /\ EmptyLog(fs) => fs' = {f \in fs : f.name # SKIPPED}
            /\ ~EmptyLog(fs) => fs' = fs
       /\ ~CleanupStep => FileNames(fs) \subseteq FileNames(fs')]_vars

C19_Witness ==
    /\ run.pc = "done"
    /\ run.cleanups = 1
    /\ run.existing_counts_path # <<>>
    /\ run.log = "empty"
    /\ ~exists(fs, SKIPPED)

(***************************************************************************)
(* scripts/cohort_update.py, lines 218-327: the batch file.                *)
(* The document is the sequence of its lines that open a stage or carry a  *)
(* parameter of interest: the indentation, whether the line is a list item *)
(* ("- "), the key and the text after "key: ".                             *)
(***************************************************************************)
MaxExpr == 3

Line(indent, dash, key) == [indent |-> indent, dash |-> dash, key |-> key, text |-> <<>>]

Param(indent, key, text) == [indent |-> indent, dash |-> FALSE, key |-> key, text |-> text]

DQ == "\""

\* cohort_utils.py lines 83-87 (cohort_update.py lines 39-43)
quote_if_needed(value) ==
    IF \E i \in 1 .. Len(value) : value[i] = DQ THEN value
    ELSE <<DQ>> \o value \o <<DQ>>

\* lines 232-240
filter_existing_section(existing_counts_path) ==
    IF existing_counts_path # <<>>
    THEN <<Line(0, TRUE, "FilterFilesWithSamplesTask"),
           Line(4, FALSE, "samplesFilePath"),
           Line(4, FALSE, "logFile")>>
    ELSE <<>>

\* lines 242-251; an empty string is false in Python
filter_by_expr_section(info_filter, format_filter) ==
    IF info_filter # <<>> \/ format_filter # <<>>
    THEN <<Line(6, TRUE, "filterByExpr")>>
           \o (IF info_filter # <<>>
               THEN <<Param(10, "expr", quote_if_needed(info_filter))>> ELSE <<>>)
           \o (IF format_filter # <<>>
               THEN <<Param(10, "sampleExpr", quote_if_needed(format_filter))>>
               ELSE <<>>)
    ELSE <<>>

\* lines 265-273: the head of the template, to alleleicPrimitives
batch_head ==
    <<Line(0, TRUE, "forEach"),
      Line(4, FALSE, "inputCount"),
      Line(4, FALSE, "taskList"),
      Line(6, TRUE, "stableSourcePropTransform"),
      Line(10, FALSE, "sourceProps"),
      Line(6, TRUE, "alleleicPrimitives")>>

\* lines 274-281
batch_keep_fields ==
    <<Line(6, TRUE, "keepFields"),
      Line(10, FALSE, "keepSymbols")>>

\* lines 282-327
batch_tail ==
    <<Line(6, TRUE, "fullyFlattenedMultiAllelicSplit"),
      Line(6, TRUE, "leftAlign"),
      Line(6, TRUE, "trimCommonBases"),
      Line(6, TRUE, "variantCollapsing"),
      Line(0, TRUE, "mergeVariantsTransform"),
      Line(4, FALSE, "readerWorkerThreads"),
      Line(4, FALSE, "readersPerFlattener"),
      Line(0, TRUE, "additiveCountAlleles"),
      Line(4, FALSE, "existingCountsSource"),
      Line(4, FALSE, "existingCountsSampleSource"),
      Line(0, TRUE, "runTaskLists"),
      Line(4, FALSE, "taskLists"),
      Line(6, TRUE, "SourceTaskListTask"),
      Line(10, FALSE, "taskList"),
      Line(12, TRUE, "createAnnotation"),
      Line(12, TRUE, "TsfWriterTask"),
      Line(6, TRUE, "SourceTaskListTask"),
      Line(10, FALSE, "taskList"),
      Line(12, TRUE, "keepFields"),
      Line(12, TRUE, "subsetUsageSpace"),
      Line(12, TRUE, "TsfWriterTask")>>

\* the filter section is put after keepFields
gautil_batch_content_mut(existing_counts_path, info_filter, format_filter) ==
    filter_existing_section(existing_counts_path)
    \o batch_head
    \o batch_keep_fields
    \o filter_by_expr_section(info_filter, format_filter)
    \o batch_tail

\* lines 265-327: the f-string
gautil_batch_content(existing_counts_path, info_filter, format_filter) ==
    filter_existing_section(existing_counts_path)
    \o batch_head
    \o filter_by_expr_section(info_filter, format_filter)
    \o batch_keep_fields
    \o batch_tail

(***************************************************************************)
(* The batch file read back, as a YAML reader reads it.                    *)
(***************************************************************************)
\* the stages of the pipeline in order: the items of the top-level list,
\* with the items of forEach's taskList in the place of forEach
RECURSIVE stage_list(_, _)
stage_list(lines, in_for_each) ==
    IF lines = <<>> THEN <<>>
    ELSE LET l == Head(lines)
         IN  IF l.dash /\ l.indent = 0
             THEN (IF l.key = "forEach" THEN <<>> ELSE <<l.key>>)
                      \o stage_list(Tail(lines), l.key = "forEach")
             ELSE IF in_for_each /\ l.dash /\ l.indent = 6
             THEN <<l.key>> \o stage_list(Tail(lines), TRUE)
             ELSE stage_list(Tail(lines), in_for_each)

\* the keys of the mapping under the item `name` of forEach's taskList
RECURSIVE stage_params(_, _, _)
stage_params(lines, name, inside) ==
    IF lines = <<>> THEN <<>>
    ELSE LET l == Head(lines)
         IN  IF l.dash /\ l.indent <= 6
             THEN stage_params(Tail(lines), name, l.indent = 6 /\ l.key = name)
             ELSE IF inside /\ ~l.dash /\ l.indent = 10
             THEN <<l>> \o stage_params(Tail(lines), name, TRUE)
             ELSE stage_params(Tail(lines), name, inside)

ParseError == [status |-> "error", value |-> <<>>]

Parsed(value) == [status |-> "ok", value |-> value]

RECURSIVE lstrip(_)
lstrip(s) == IF s # <<>> /\ Head(s) = " " THEN lstrip(Tail(s)) ELSE s

RECURSIVE rstrip(_)
rstrip(s) ==
    IF s # <<>> /\ s[Len(s)] = " " THEN rstrip(SubSeq(s, 1, Len(s) - 1)) ELSE s

\* what may follow a quoted scalar on its line: nothing, spaces, or spaces
\* and a comment
only_comment(rest) == lstrip(rest) = <<>> \/ (Head(rest) = " " /\ Head(lstrip(rest)) = "#")

\* a double-quoted scalar after its opening quote: \\ \" and "\ " are
\* escapes of the character, \a is the bell character, \# is no escape;
\* the scalar ends at the first quote that is not escaped
RECURSIVE double_quoted(_, _)
double_quoted(s, acc) ==
    IF s = <<>> THEN ParseError
    ELSE IF Head(s) = DQ
         THEN IF only_comment(Tail(s)) THEN Parsed(acc) ELSE ParseError
    ELSE IF Head(s) = "\\"
         THEN IF Len(s) < 2 THEN ParseError
              ELSE IF s[2] \in {"\\", DQ, " "}
                   THEN double_quoted(SubSeq(s, 3, Len(s)), Append(acc, s[2]))
              ELSE IF s[2] = "a"
                   THEN double_quoted(SubSeq(s, 3, Len(s)), Append(acc, "BEL"))
              ELSE ParseError
    ELSE double_quoted(Tail(s), Append(acc, Head(s)))

\* a plain scalar ends before " #", and the spaces at its end are dropped
RECURSIVE plain(_, _)
plain(s, acc) ==
    IF s = <<>> THEN Parsed(rstrip(acc))
    ELSE IF Head(s) = "#" /\ acc # <<>> /\ acc[Len(acc)] = " " THEN Parsed(rstrip(acc))
    ELSE plain(Tail(s), Append(acc, Head(s)))

\* the value of `key: text`: nothing or a comment is null
yaml_scalar(text) ==
    LET t == lstrip(text)
    IN  IF t = <<>> \/ Head(t) = "#" THEN [status |-> "null", value |-> <<>>]
        ELSE IF Head(t) = DQ THEN double_quoted(Tail(t), <<>>)
        ELSE plain(t, <<>>)

(***************************************************************************)
(* The task graph specification: the batch file of cohort_update.py is     *)
(* built for every choice of the two filters and of the prior version, and *)
(* read back.                                                              *)
(***************************************************************************)
ExprChars == {"a", " ", "#", DQ, "\\"}

Strings(n) == UNION {[1 .. k -> ExprChars] : k \in 0 .. n}

InfoFilters == Strings(MaxExpr)

FormatFilters == Strings(MaxExpr - 2)

InitGraph ==
    /\ IdleOthers
    /\ IdleRuns
    /\ proc = NoProc
    /\ graph \in [pc : {"args"}, info_filter : InfoFilters,
                  format_filter : FormatFilters,
                  existing_counts_path : {<<>>, OLD_A},
                  doc : {<<>>}, stages : {<<>>}, params : {<<>>}]

\* cohort_update.py lines 218-333
BuildBatch ==
    /\ graph.pc = "args"
    /\ graph' = [graph EXCEPT
                   !.pc = "built",
                   !.doc = gautil_batch_content(graph.existing_counts_path,
                                                graph.info_filter,
                                                graph.format_filter)]
    /\ UNCHANGED <<allocVars, sel, chunk, fs, now, wclock, run, hist, proc>>

\* the engine reads the batch file
ReadBatch ==
    /\ graph.pc = "built"
    /\ graph' = [graph EXCEPT
                   !.pc = "read",
                   !.stages = stage_list(graph.doc, FALSE),
                   !.params = stage_params(graph.doc, "filterByExpr", FALSE)]
    /\ UNCHANGED <<allocVars, sel, chunk, fs, now, wclock, run, hist, proc>>

NextGraph ==
    \/ BuildBatch
    \/ ReadBatch

SpecGraph == InitGraph /\ [][NextGraph]_vars

\* the stages of the claim, in its order
Pipeline ==
    <<"stableSourcePropTransform", "alleleicPrimitives", "filterByExpr",
      "keepFields", "fullyFlattenedMultiAllelicSplit", "leftAlign",
      "trimCommonBases", "variantCollapsing", "mergeVariantsTransform",
      "additiveCountAlleles", "runTaskLists">>

InPipeline(name) == \E i \in 1 .. Len(Pipeline) : Pipeline[i] = name

FilterSupplied == graph.info_filter # <<>> \/ graph.format_filter # <<>>

ExpectedStage(name) == name # "filterByExpr" \/ FilterSupplied

\* C17: whatever filters and prior version are given, the stages of the
\* task graph are, in this order and once each: normalization, the
\* expression filter if a filter was given, field projection, flattening,
\* left-align, trim, collapse, merge, additive counting, dual write.
C17_StageOrder ==
    graph.pc = "read" =>
        SelectSeq(graph.stages, InPipeline) = SelectSeq(Pipeline, ExpectedStage)

C17_Witness ==
    /\ graph.pc = "read"
    /\ graph.info_filter = <<>>
    /\ graph.format_filter # <<>>
    /\ graph.existing_counts_path # <<>>
    /\ Len(graph.stages) = Len(Pipeline) + 1

ParamKeys == {graph.params[i].key : i \in 1 .. Len(graph.params)}

\* C18: the filter stage is in the task graph iff a filter was given, it has
\* the key expr iff the record filter was given and the key sampleExpr iff
\* the per-sample filter was given, and each value reads back as the
\* expression that was given.
C18_FiltersPassThrough ==
    graph.pc = "read" =>
        /\ (\E i \in 1 .. Len(graph.stages) : graph.stages[i] = "filterByExpr")
              <=> FilterSupplied
        /\ "expr" \in ParamKeys <=> graph.info_filter # <<>>
        /\ "sampleExpr" \in ParamKeys <=> graph.format_filter # <<>>
        /\ \A i \in 1 .. Len(graph.params) :
              yaml_scalar(graph.params[i].text) =
                  Parsed(IF graph.params[i].key = "expr" THEN graph.info_filter
                         ELSE graph.format_filter)

\* the current run has no --existing-counts, no --skip-existing-counts
\* and, for cohort_merge.py, no --out-file
NoOverride ==
    /\ run.args_existing_counts = None
    /\ ~run.skip_existing_counts
    /\ run.script = "merge" => run.args_out_file = None

\* the runs before the current one ended in success and had no override
AllSuccessful ==
    \A i \in 1 .. Len(hist) : hist[i].pc = "done" /\ ~hist[i].override

\* C20: in a sequence of successful runs with no override, the prior
\* version a run resolves is the artifact the run before it wrote.
C20_ExtendsLatest ==
    (run.pc = "resolved" /\ NoOverride /\ hist # <<>> /\ AllSuccessful) =>
        run.existing_counts = Some(hist[Len(hist)].out_file)

\* a candidate whose samples were extracted
Extracted(dir, n) == Candidate(dir, n) /\ dir[n].ok

Accepted(n) == n \in Range(sel'.res.files)

\* the call of find_files_with_new_samples on a directory
SelectStep == sel.pc = "start" /\ sel'.pc = "done" /\ sel.is_dir

\* C21: find_files_with_new_samples leaves the known samples as they were,
\* and decides on each candidate from its own samples and the known samples
\* alone: two candidates with the same samples get the same decision, and
\* two candidates that share a sample and have no known sample are both
\* accepted.
C21_KnownUnchanged ==
    [][SelectStep =>
          /\ sel'.known = sel.known
          /\ \A n, m \in Names :
                (Extracted(sel.dir, n) /\ Extracted(sel.dir, m)) =>
                    /\ sel.dir[n].samples = sel.dir[m].samples
                          => (Accepted(n) <=> Accepted(m))
                    /\ ( /\ sel.dir[n].samples \cap sel.dir[m].samples # {}
                         /\ (sel.dir[n].samples \cup sel.dir[m].samples)
                                \cap sel.known = {} )
                          => (Accepted(n) /\ Accepted(m))]_vars

C21_Witness ==
    /\ sel.pc = "done"
    /\ sel.known = {"S3"}
    /\ \E n, m \in Names :
          /\ n # m
          /\ Extracted(sel.dir, n) /\ Extracted(sel.dir, m)
          /\ sel.dir[n].samples = {"S1"}
          /\ sel.dir[m].samples = {"S1", "S2"}
          /\ n \in Range(sel.res.files)
          /\ m \in Range(sel.res.files)

=============================================================================
